---- MODULE Spec2Model ----
(***************************************************************************)
(* Model of dom-manipulation/script.js: the in-memory quotes list, its     *)
(* persistence under the localStorage key 'quotes', and syncQuotes, which  *)
(* fetches a remote list and merges it into the local one (server wins).   *)
(*                                                                         *)
(* JavaScript runs every handler to completion: a handler can only be      *)
(* interleaved with syncQuotes at its single await (line 160).  The        *)
(* continuation after the await is modelled statement group by statement   *)
(* group (pc), with every other handler disabled until it returns.         *)
(***************************************************************************)
EXTENDS Integers, Sequences, FiniteSets, TLC

VARIABLES
    quotes,          \* the global quotes array (line 2, reassigned at 79, 196)
    storage,         \* the localStorage entry 'quotes'
    inflight,        \* syncQuotes calls suspended at the await of line 160
    pc,              \* position of the running syncQuotes continuation
    fetchOutcome,    \* how the awaited fetch ended: "ok", "httpError", "threw"
    serverQuotes,    \* const serverQuotes (line 160)
    localAtMerge,    \* the value of quotes read at line 172
    mergedQuotes,    \* let mergedQuotes (line 168)
    conflicts,       \* let conflicts (line 169)
    newQuotesAdded,  \* let newQuotesAdded (line 170)
    categoryOptions, \* the options of the category <select> (populateCategories)
    notification,    \* syncStatusDisplay: the last message shown
    added            \* history: records pushed by addQuote while a fetch was
                     \* in flight, since the last merge was assigned

vars == <<quotes, storage, inflight, pc, fetchOutcome, serverQuotes,
          localAtMerge, mergedQuotes, conflicts, newQuotesAdded,
          categoryOptions, notification, added>>

----------------------------------------------------------------------------
(* Bounds of the model *)

\* longest JSON array the server answers with
MaxRemoteLen == 2
\* most syncQuotes calls suspended at the await at one time
MaxInflight == 1
\* largest identifier addQuote hands out
MaxQuoteId == 7

----------------------------------------------------------------------------
(* Helpers *)

Range(s) == {s[i] : i \in 1..Len(s)}

Ids(s) == {s[i].id : i \in 1..Len(s)}

MaxOf(S) == CHOOSE m \in S : \A x \in S : x <= m

----------------------------------------------------------------------------
(* Data *)

\* let quotes = [...] (lines 2-28)
DefaultQuotes ==
    << [id |-> 1, text |-> "The best way to predict the future is to create it.",
        category |-> "Innovation"],
       [id |-> 2, text |-> "Life is what happens when you're busy making other plans.",
        category |-> "Reflection"],
       [id |-> 3, text |-> "The only limit to our realization of tomorrow will be our doubts of today.",
        category |-> "Inspiration"],
       [id |-> 4, text |-> "Strive not to be a success, but rather to be of value.",
        category |-> "Wisdom"],
       [id |-> 5, text |-> "Do one thing every day that scares you.",
        category |-> "Courage"] >>

\* The posts the mock API may answer with: post 1 collides with a default
\* quote and can arrive with either title, post 6 is new to the page.
ServerPosts ==
    { [id |-> 1, title |-> "sunt aut facere", userId |-> 1],
      [id |-> 1, title |-> "qui est esse", userId |-> 1],
      [id |-> 6, title |-> "dolorem eum magni", userId |-> 2] }

\* a JSON array of posts, as response.json() resolves it (line 108)
ServerData == UNION {[1..n -> ServerPosts] : n \in 0..MaxRemoteLen}

\* post => ({id: post.id, text: post.title, category: `User ${post.userId}`})
FormatPost(post) ==
    [id |-> post.id, text |-> post.title,
     category |-> "User " \o ToString(post.userId)]

\* data.map(post => ...) (lines 110-114)
FormatPosts(data) == [i \in 1..Len(data) |-> FormatPost(data[i])]

----------------------------------------------------------------------------
(* JSON *)

\* JSON.stringify of one quote object: keys in creation order id, text, category
StringifyQuote(q) ==
    "{\"id\":" \o ToString(q.id) \o ",\"text\":\"" \o q.text
        \o "\",\"category\":\"" \o q.category \o "\"}"

\* JSON.stringify(quotes): the array, element by element
JSONStringify(qs) == [i \in 1..Len(qs) |-> StringifyQuote(qs[i])]

\* the quote objects that can occur in the program
KnownQuotes ==
    Range(DefaultQuotes) \cup {FormatPost(p) : p \in ServerPosts}
        \cup [id : 1..(MaxQuoteId + 1), text : {"Stay hungry, stay foolish."},
              category : {"Motivation"}]

\* JSON.parse of one serialized quote
ParseQuote(s) == CHOOSE q \in KnownQuotes : StringifyQuote(q) = s

\* JSON.parse(storedQuotes) (line 79)
JSONParse(item) == [i \in 1..Len(item) |-> ParseQuote(item[i])]

NoItem == [has |-> FALSE, val |-> <<>>]

\* localStorage.setItem('quotes', JSON.stringify(quotes)) (line 68)
saveQuotes(qs) == [has |-> TRUE, val |-> JSONStringify(qs)]

\* loadQuotes (lines 75-91) applied to the freshly initialised global
loadQuotes(item) == IF item.has THEN JSONParse(item.val) ELSE DefaultQuotes

----------------------------------------------------------------------------
(* Map: entries in insertion order; setting an existing key keeps its place *)

MapHas(m, k) == \E i \in 1..Len(m) : m[i].key = k

MapGet(m, k) == (CHOOSE i \in 1..Len(m) : m[i].key = k)

MapValue(m, k) == m[MapGet(m, k)].value

MapSet(m, k, v) ==
    IF MapHas(m, k)
    THEN [m EXCEPT ![MapGet(m, k)] = [key |-> k, value |-> v]]
    ELSE Append(m, [key |-> k, value |-> v])

MapDelete(m, k) == SelectSeq(m, LAMBDA e : e.key # k)

RECURSIVE MapFrom(_, _)
\* new Map(qs.map(q => [q.id, q])), starting from map m
MapFrom(m, qs) ==
    IF qs = <<>> THEN m
    ELSE MapFrom(MapSet(m, Head(qs).id, Head(qs)), Tail(qs))

\* Map.prototype.forEach order: the values in insertion order
MapValues(m) == [i \in 1..Len(m) |-> m[i].value]

----------------------------------------------------------------------------
(* The merge of syncQuotes (lines 168-194) *)

RECURSIVE ForEachServerQuote(_, _)
\* serverQuotes.forEach(serverQ => ...) (lines 176-189) on the remaining
\* server quotes, from the loop state st
ForEachServerQuote(st, server) ==
    IF server = <<>> THEN st
    ELSE LET serverQ == Head(server)
             localQ  == MapValue(st.localQuoteMap, serverQ.id)
         IN  IF MapHas(st.localQuoteMap, serverQ.id)
             THEN ForEachServerQuote(
                    [mergedQuotes   |-> Append(st.mergedQuotes, serverQ),
                     conflicts      |-> IF StringifyQuote(localQ) # StringifyQuote(serverQ)
                                        THEN st.conflicts + 1 ELSE st.conflicts,
                     newQuotesAdded |-> st.newQuotesAdded,
                     localQuoteMap  |-> MapDelete(st.localQuoteMap, serverQ.id)],
                    Tail(server))
             ELSE ForEachServerQuote(
                    [mergedQuotes   |-> Append(st.mergedQuotes, serverQ),
                     conflicts      |-> st.conflicts,
                     newQuotesAdded |-> st.newQuotesAdded + 1,
                     localQuoteMap  |-> st.localQuoteMap],
                    Tail(server))

\* lines 168-194: the merged list and the two counters, from the local list
\* and the server list
MergeQuotes(local, server) ==
    LET st == ForEachServerQuote(
                [mergedQuotes |-> <<>>, conflicts |-> 0, newQuotesAdded |-> 0,
                 localQuoteMap |-> MapFrom(<<>>, local)],
                server)
    IN  [mergedQuotes   |-> st.mergedQuotes \o MapValues(st.localQuoteMap),
         conflicts      |-> st.conflicts,
         newQuotesAdded |-> st.newQuotesAdded]

----------------------------------------------------------------------------
(* Rendering and notifications *)

RECURSIVE Unique(_, _)
\* [...new Set(xs)]: first occurrences, in order
Unique(seen, xs) ==
    IF xs = <<>> THEN seen
    ELSE IF \E i \in 1..Len(seen) : seen[i] = Head(xs)
         THEN Unique(seen, Tail(xs))
         ELSE Unique(Append(seen, Head(xs)), Tail(xs))

\* populateCategories (lines 217-228): the options of the category filter
populateCategories(qs) ==
    <<"all">> \o Unique(<<>>, [i \in 1..Len(qs) |-> qs[i].category])

\* showNotification(message, type) (lines 43-53)
showNotification(message, type) == [message |-> message, type |-> type]

NoNotification == showNotification("", "inherit")

\* the completion message of lines 201-207
SyncCompleteNotification(newAdded, nConflicts) ==
    IF nConflicts > 0
    THEN showNotification(
           "Sync complete: " \o ToString(newAdded) \o " new, "
               \o ToString(nConflicts) \o " conflicts resolved (server wins).",
           "warning")
    ELSE IF newAdded > 0
    THEN showNotification(
           "Sync complete: " \o ToString(newAdded) \o " new quotes added!",
           "success")
    ELSE showNotification("Sync complete: No changes.", "info")

\* the message of the early return (line 164)
NoNewNotification ==
    showNotification("Sync complete: No new server quotes.", "info")

----------------------------------------------------------------------------
(* State machine *)

Init ==
    /\ quotes = loadQuotes(NoItem)
    /\ storage = NoItem
    /\ inflight = 0
    /\ pc = "idle"
    /\ fetchOutcome = "none"
    /\ serverQuotes = <<>>
    /\ localAtMerge = <<>>
    /\ mergedQuotes = <<>>
    /\ conflicts = 0
    /\ newQuotesAdded = 0
    /\ categoryOptions = populateCategories(DefaultQuotes)
    /\ notification = NoNotification
    /\ added = {}

HandlerMayRun_midSync == TRUE

\* Run to completion: a new handler starts only when no syncQuotes
\* continuation is running, that is when every syncQuotes call is either
\* finished or suspended at the await of line 160.
HandlerMayRun == pc = "idle"

NoServerQuotes_negative(server) == Len(server) < 0

\* serverQuotes.length === 0 (line 162)
NoServerQuotes(server) == Len(server) = 0

\* syncQuotes up to its await (lines 157-160), with fetchQuotesFromServer up
\* to its own await (lines 100-104)
SyncQuotesCall ==
    /\ HandlerMayRun
    /\ inflight < MaxInflight
    /\ inflight' = inflight + 1
    /\ notification' = showNotification("Syncing with server...", "info")
    /\ UNCHANGED <<quotes, storage, pc, fetchOutcome, serverQuotes,
                   localAtMerge, mergedQuotes, conflicts, newQuotesAdded,
                   categoryOptions, added>>

\* The fetch settles and fetchQuotesFromServer returns (lines 104-121);
\* syncQuotes resumes with the returned list (line 160).
FetchSettles(outcome, data) ==
    /\ HandlerMayRun
    /\ inflight > 0
    /\ inflight' = inflight - 1
    /\ fetchOutcome' = outcome
    /\ IF outcome = "ok"
       THEN /\ serverQuotes' = FormatPosts(data)
            /\ notification' = showNotification("Quotes synced with server!", "success")
       ELSE /\ serverQuotes' = <<>>
            /\ notification' = showNotification("Server sync failed!", "error")
    /\ pc' = "resumed"
    /\ UNCHANGED <<quotes, storage, localAtMerge, mergedQuotes, conflicts,
                   newQuotesAdded, categoryOptions, added>>

\* lines 162-166: nothing fetched, keep the local quotes
SyncNoServerQuotes ==
    /\ pc = "resumed"
    /\ NoServerQuotes(serverQuotes)
    /\ notification' = NoNewNotification
    /\ pc' = "idle"
    /\ fetchOutcome' = "none"
    /\ UNCHANGED <<quotes, storage, inflight, serverQuotes, localAtMerge,
                   mergedQuotes, conflicts, newQuotesAdded, categoryOptions,
                   added>>

\* lines 168-194: read quotes and merge the server list into it
SyncMerge ==
    /\ pc = "resumed"
    /\ ~NoServerQuotes(serverQuotes)
    /\ localAtMerge' = quotes
    /\ LET m == MergeQuotes(quotes, serverQuotes)
       IN  /\ mergedQuotes' = m.mergedQuotes
           /\ conflicts' = m.conflicts
           /\ newQuotesAdded' = m.newQuotesAdded
    /\ pc' = "merged"
    /\ UNCHANGED <<quotes, storage, inflight, fetchOutcome, serverQuotes,
                   categoryOptions, notification, added>>

\* line 196: quotes = mergedQuotes
SyncAssign ==
    /\ pc = "merged"
    /\ quotes' = mergedQuotes
    /\ pc' = "assigned"
    /\ UNCHANGED <<storage, inflight, fetchOutcome, serverQuotes, localAtMerge,
                   mergedQuotes, conflicts, newQuotesAdded, categoryOptions,
                   notification, added>>

SyncSave_omitted ==
    /\ pc = "assigned"
    /\ pc' = "saved"
    /\ UNCHANGED <<quotes, storage, inflight, fetchOutcome, serverQuotes,
                   localAtMerge, mergedQuotes, conflicts, newQuotesAdded,
                   categoryOptions, notification, added>>

\* line 197: saveQuotes()
SyncSave ==
    /\ pc = "assigned"
    /\ storage' = saveQuotes(quotes)
    /\ pc' = "saved"
    /\ UNCHANGED <<quotes, inflight, fetchOutcome, serverQuotes, localAtMerge,
                   mergedQuotes, conflicts, newQuotesAdded, categoryOptions,
                   notification, added>>

\* lines 198-199: populateCategories(); showRandomQuote(selectedCategory)
SyncRender ==
    /\ pc = "saved"
    /\ categoryOptions' = populateCategories(quotes)
    /\ pc' = "rendered"
    /\ UNCHANGED <<quotes, storage, inflight, fetchOutcome, serverQuotes,
                   localAtMerge, mergedQuotes, conflicts, newQuotesAdded,
                   notification, added>>

\* lines 201-208: report the counts; syncQuotes returns and its locals die
SyncNotify ==
    /\ pc = "rendered"
    /\ notification' = SyncCompleteNotification(newQuotesAdded, conflicts)
    /\ pc' = "idle"
    /\ fetchOutcome' = "none"
    /\ serverQuotes' = <<>>
    /\ localAtMerge' = <<>>
    /\ mergedQuotes' = <<>>
    /\ conflicts' = 0
    /\ newQuotesAdded' = 0
    /\ added' = {}
    /\ UNCHANGED <<quotes, storage, inflight, categoryOptions>>

\* the timer of showNotification (lines 55-58) clears the message
NotificationTimeout ==
    /\ HandlerMayRun
    /\ notification # NoNotification
    /\ notification' = NoNotification
    /\ UNCHANGED <<quotes, storage, inflight, pc, fetchOutcome, serverQuotes,
                   localAtMerge, mergedQuotes, conflicts, newQuotesAdded,
                   categoryOptions, added>>

\* A local addition: the user adds a quote, which is pushed to quotes under a
\* fresh identifier, persisted and rendered.
AddQuote ==
    /\ HandlerMayRun
    /\ LET newId == MaxOf(Ids(quotes) \cup {0}) + 1
           newQuote == [id |-> newId, text |-> "Stay hungry, stay foolish.",
                        category |-> "Motivation"]
       IN  /\ newId <= MaxQuoteId
           /\ quotes' = Append(quotes, newQuote)
           /\ added' = IF inflight > 0 THEN added \cup {newQuote} ELSE added
    /\ storage' = saveQuotes(quotes')
    /\ categoryOptions' = populateCategories(quotes')
    /\ UNCHANGED <<inflight, pc, fetchOutcome, serverQuotes, localAtMerge,
                   mergedQuotes, conflicts, newQuotesAdded, notification>>

\* The page is loaded again: the script starts over, pending fetches die with
\* the old page, and loadQuotes (lines 75-91) restores the persisted list.
PageLoad ==
    /\ HandlerMayRun
    /\ quotes' = loadQuotes(storage)
    /\ inflight' = 0
    /\ categoryOptions' = populateCategories(quotes')
    /\ notification' = NoNotification
    /\ added' = {}
    /\ UNCHANGED <<storage, pc, fetchOutcome, serverQuotes, localAtMerge,
                   mergedQuotes, conflicts, newQuotesAdded>>

Next ==
    \/ SyncQuotesCall
    \/ \E data \in ServerData : FetchSettles("ok", data)
    \/ \E outcome \in {"httpError", "threw"} : FetchSettles(outcome, <<>>)
    \/ SyncNoServerQuotes
    \/ SyncMerge
    \/ SyncAssign
    \/ SyncSave
    \/ SyncRender
    \/ SyncNotify
    \/ NotificationTimeout
    \/ AddQuote
    \/ PageLoad

Spec == Init /\ [][Next]_vars

\* The server lists in which no identifier occurs twice, and the program run
\* against a server that only answers with those.
DistinctServerData ==
    {data \in ServerData :
        \A i, j \in 1..Len(data) : data[i].id = data[j].id => i = j}

NextDistinctRemote ==
    \/ SyncQuotesCall
    \/ \E data \in DistinctServerData : FetchSettles("ok", data)
    \/ \E outcome \in {"httpError", "threw"} : FetchSettles(outcome, <<>>)
    \/ SyncNoServerQuotes
    \/ SyncMerge
    \/ SyncAssign
    \/ SyncSave
    \/ SyncRender
    \/ SyncNotify
    \/ NotificationTimeout
    \/ AddQuote
    \/ PageLoad

SpecDistinctRemote == Init /\ [][NextDistinctRemote]_vars

----------------------------------------------------------------------------
(* Properties *)

\* the locals of the running continuation hold the result of the merge
MergeDone == pc \in {"merged", "assigned", "saved", "rendered"}

\* quotes holds the merged list
Assigned == pc \in {"assigned", "saved", "rendered"}

\* positions of list s holding a record with identifier i
PositionsOf(s, i) == {k \in 1..Len(s) : s[k].id = i}

\* identifiers held by a local and a remote record that differ in a field
DifferingIds ==
    {i \in Ids(localAtMerge) \cap Ids(serverQuotes) :
        \E l \in Range(localAtMerge), r \in Range(serverQuotes) :
            l.id = i /\ r.id = i /\ l # r}

\* identifiers held by a local and a remote record that are identical
IdenticalIds ==
    {i \in Ids(localAtMerge) \cap Ids(serverQuotes) :
        \E l \in Range(localAtMerge), r \in Range(serverQuotes) :
            l.id = i /\ r.id = i /\ l = r}

\* C1: for every identifier that occurs in the local and in the remote list
\* with differing field values, the merged records with that identifier are
\* the remote record, and the conflict counter counts that identifier exactly
\* once.
C1_RemoteWinsCountedOnce ==
    MergeDone =>
        /\ \A i \in DifferingIds :
              /\ PositionsOf(mergedQuotes, i) # {}
              /\ \A k \in PositionsOf(mergedQuotes, i) :
                    mergedQuotes[k] \in Range(serverQuotes)
        /\ conflicts = Cardinality(DifferingIds)

\* C2: when syncQuotes resumes with an empty server list, which is what it
\* gets whenever the fetch failed, it returns without changing quotes or the
\* stored entry, and the message it shows reports no addition and no conflict.
C2_EmptyRemoteIsNoOp ==
    [][(pc = "resumed" /\ (serverQuotes = <<>> \/ fetchOutcome # "ok")) =>
          /\ serverQuotes = <<>>
          /\ pc' = "idle"
          /\ quotes' = quotes
          /\ storage' = storage
          /\ conflicts' = 0 /\ newQuotesAdded' = 0
          /\ notification' = NoNewNotification]_vars

C2_Witness ==
    /\ pc = "idle"
    /\ notification = NoNewNotification
    /\ storage.has
    /\ quotes # DefaultQuotes

\* C3: the list syncQuotes assigns to quotes holds no identifier at two
\* positions.
C3_UniqueIds ==
    Assigned => \A j, k \in 1..Len(quotes) : quotes[j].id = quotes[k].id => j = k

\* C4: the merged list is as long as the number of distinct identifiers of
\* the local and the remote list together.
C4_LengthIsDistinctIds ==
    MergeDone =>
        Len(mergedQuotes) = Cardinality(Ids(localAtMerge) \cup Ids(serverQuotes))

\* C5: every remote record is in the merged list, and so is every local
\* record whose identifier no remote record has.
C5_NoRecordLost ==
    MergeDone =>
        /\ \A r \in Range(serverQuotes) : r \in Range(mergedQuotes)
        /\ \A l \in Range(localAtMerge) :
              l.id \notin Ids(serverQuotes) => l \in Range(mergedQuotes)

\* C6: merging the merged list with the same remote list again counts no
\* conflict and gives the merged list back.
C6_Idempotent ==
    MergeDone =>
        LET again == MergeQuotes(mergedQuotes, serverQuotes)
        IN  /\ again.conflicts = 0
            /\ again.mergedQuotes = mergedQuotes

\* C7: the merged list is the remote list, in its order, followed by the
\* local records whose identifier no remote record has, in their local order.
C7_RemoteThenLocalOnly ==
    MergeDone =>
        mergedQuotes =
            serverQuotes \o
            SelectSeq(localAtMerge, LAMBDA q : q.id \notin Ids(serverQuotes))

\* C8: an identifier whose local and remote records are identical is held
\* once by the merged list and is counted neither as a conflict nor as an
\* addition: when every shared identifier is of that kind, no conflict is
\* counted and the additions counted are exactly the remote records whose
\* identifier the local list does not hold.
C8_IdenticalNotCounted ==
    MergeDone =>
        /\ \A i \in IdenticalIds : Cardinality(PositionsOf(mergedQuotes, i)) = 1
        /\ DifferingIds = {} =>
              /\ conflicts = 0
              /\ newQuotesAdded =
                    Cardinality({k \in 1..Len(serverQuotes) :
                                    serverQuotes[k].id \notin Ids(localAtMerge)})

\* quotes is the merged list and the stored entry is its serialization
MergedIsStored ==
    /\ quotes = mergedQuotes
    /\ storage.has
    /\ storage.val = JSONStringify(quotes)
    /\ JSONParse(storage.val) = mergedQuotes

\* C9: whenever syncQuotes re-renders or shows the counts after a merge,
\* quotes already is the merged list and the stored entry already is the
\* serialization of quotes, and neither step changes them.
C9_PersistedBeforeRender ==
    [][(pc' = "rendered" \/ (pc = "rendered" /\ pc' = "idle")) =>
          /\ MergedIsStored
          /\ quotes' = quotes /\ storage' = storage]_vars

C9_Witness ==
    /\ pc = "rendered"
    /\ MergedIsStored
    /\ conflicts > 0
    /\ newQuotesAdded > 0
    /\ Len(mergedQuotes) > Len(serverQuotes)

====
